---------------------------- MODULE Spec2Model ----------------------------
(***************************************************************************)
(* Model of 01-password-checker/password_checker.py.                       *)
(*                                                                         *)
(* A string is a sequence of one-character strings.  The common-password   *)
(* set is a record [words, bulk]: 'words' are the entries spelled out,     *)
(* 'bulk' counts further distinct entries of the set that are written over *)
(* characters no modelled password contains (so they neither equal nor     *)
(* occur in a normalized password); this is what lets a set hold more than *)
(* 5000 entries.  A set has no iteration order of its own, so the slice    *)
(* list(common_passwords)[:5000] may hold any 5000 entries of a larger     *)
(* set (Slices); it is a record [words, bulk] as well.                     *)
(***************************************************************************)
EXTENDS Integers, Sequences, FiniteSets, TLC

VARIABLES pc, pw, common, loadStatus, seenMatches, call1, call2

vars == <<pc, pw, common, loadStatus, seenMatches, call1, call2>>

---------------------------------------------------------------------------
(* Bounds of the model *)

MaxLen == 20

MaxFileLines == 2

BulkSlack == 8

---------------------------------------------------------------------------
(* Characters *)

\* The printable ASCII characters in code order, 32..126.  Code 96 (the grave
\* accent) cannot be written in a string of the language and is named instead.
Printable ==
  << " ", "!", "\"", "#", "$", "%", "&", "'", "(", ")", "*", "+", ",", "-", ".", "/",
     "0", "1", "2", "3", "4", "5", "6", "7", "8", "9", ":", ";", "<", "=", ">", "?",
     "@", "A", "B", "C", "D", "E", "F", "G", "H", "I", "J", "K", "L", "M", "N", "O",
     "P", "Q", "R", "S", "T", "U", "V", "W", "X", "Y", "Z", "[", "\\", "]", "^", "_",
     "grave", "a", "b", "c", "d", "e", "f", "g", "h", "i", "j", "k", "l", "m", "n", "o",
     "p", "q", "r", "s", "t", "u", "v", "w", "x", "y", "z", "{", "|", "}", "~" >>

Tab == "\t"

Chars == {Printable[i] : i \in 1..Len(Printable)} \cup {Tab}

\* ord(c) for the ASCII characters of the model
OrdTable ==
  [c \in Chars |->
     IF c = Tab THEN 9
     ELSE 31 + (CHOOSE i \in 1..Len(Printable) : Printable[i] = c)]

Ord(c) == OrdTable[c]

Chr(n) == Printable[n - 31]

IsLower(c) == Ord(c) >= 97 /\ Ord(c) <= 122

IsUpper(c) == Ord(c) >= 65 /\ Ord(c) <= 90

IsDigit(c) == Ord(c) >= 48 /\ Ord(c) <= 57

IsSymbol(c) == ~IsLower(c) /\ ~IsUpper(c) /\ ~IsDigit(c)

IsSpace(c) == c = " " \/ c = Tab

Min(a, b) == IF a <= b THEN a ELSE b

Max(a, b) == IF a >= b THEN a ELSE b

---------------------------------------------------------------------------
(* str methods used by the program *)

\* str.lower() on ASCII
LowerChar(c) == IF IsUpper(c) THEN Chr(Ord(c) + 32) ELSE c

Lower(s) == [i \in 1..Len(s) |-> LowerChar(s[i])]

\* str.strip(): drop leading and trailing whitespace
RECURSIVE LStrip(_)
LStrip(s) == IF s # <<>> /\ IsSpace(Head(s)) THEN LStrip(Tail(s)) ELSE s

RECURSIVE RStrip(_)
RStrip(s) ==
  IF s # <<>> /\ IsSpace(s[Len(s)]) THEN RStrip(SubSeq(s, 1, Len(s) - 1)) ELSE s

Strip(s) == RStrip(LStrip(s))

\* str.replace(sym, repl) for one-character sym and repl
Replace(s, sym, repl) == [i \in 1..Len(s) |-> IF s[i] = sym THEN repl ELSE s[i]]

\* 'w in s' on strings
IsSubstring(w, s) ==
  \E i \in 0..(Len(s) - Len(w)) : SubSeq(s, i + 1, i + Len(w)) = w

\* s[::-1]
Reverse(s) == [i \in 1..Len(s) |-> s[Len(s) + 1 - i]]

StartsWith(s, c) == s # <<>> /\ s[1] = c

---------------------------------------------------------------------------
(* Module constants *)

DEFAULT_COMMON_PASSWORDS ==
  { <<"p","a","s","s","w","o","r","d">>,
    <<"1","2","3","4","5","6">>,
    <<"1","2","3","4","5","6","7","8","9">>,
    <<"q","w","e","r","t","y">>,
    <<"l","e","t","m","e","i","n">>,
    <<"a","d","m","i","n">>,
    <<"w","e","l","c","o","m","e">>,
    <<"i","l","o","v","e","y","o","u">>,
    <<"m","o","n","k","e","y">>,
    <<"f","o","o","t","b","a","l","l">> }

KEYBOARD_SEQS ==
  << <<"q","w","e","r","t","y","u","i","o","p">>,
     <<"a","s","d","f","g","h","j","k","l">>,
     <<"z","x","c","v","b","n","m">>,
     <<"1","2","3","4","5","6","7","8","9","0">> >>

\* the dict in its insertion order
COMMON_SUBSTITUTIONS ==
  << <<"@", "a">>, <<"0", "o">>, <<"1", "l">>, <<"!", "i">>,
     <<"$", "s">>, <<"3", "e">>, <<"5", "s">>, <<"7", "t">> >>

ScanCap == 5000

MinSeqLen == 4

MinCommonLen == 6

---------------------------------------------------------------------------
(* normalize_for_common_checks *)

RECURSIVE ApplySubstitutions(_, _)
ApplySubstitutions(s, k) ==
  IF k > Len(COMMON_SUBSTITUTIONS) THEN s
  ELSE ApplySubstitutions(
         Replace(s, COMMON_SUBSTITUTIONS[k][1], COMMON_SUBSTITUTIONS[k][2]), k + 1)

normalize_for_common_checks(p) == ApplySubstitutions(Lower(Strip(p)), 1)

---------------------------------------------------------------------------
(* Pattern detectors *)

has_keyboard_sequence(pw_lower, min_len) ==
  \E r \in 1..Len(KEYBOARD_SEQS) :
    \E i \in 0..(Len(KEYBOARD_SEQS[r]) - min_len) :
      LET chunk == SubSeq(KEYBOARD_SEQS[r], i + 1, i + min_len)
      IN  IsSubstring(chunk, pw_lower) \/ IsSubstring(Reverse(chunk), pw_lower)

has_simple_sequence(p, min_len) ==
  /\ Len(p) >= min_len
  /\ \E i \in 0..(Len(p) - min_len) :
       LET window == SubSeq(p, i + 1, i + min_len)
           diffs == [j \in 1..(min_len - 1) |-> Ord(window[j + 1]) - Ord(window[j])]
       IN  \/ \A j \in 1..(min_len - 1) : diffs[j] = 1
           \/ \A j \in 1..(min_len - 1) : diffs[j] = -1

\* length of the run of s[i] that starts at position i
RECURSIVE RunLength(_, _)
RunLength(s, i) ==
  IF i < Len(s) /\ s[i + 1] = s[i] THEN 1 + RunLength(s, i + 1) ELSE 1

\* re.search(r"(.)\1{3,}", pw): leftmost start of 4 equal characters, greedy.
\* Returns <<found, length of the match>>.
repeated_characters(p) ==
  LET starts == {i \in 1..Len(p) : RunLength(p, i) >= 4}
  IN  IF starts = {} THEN <<FALSE, 0>>
      ELSE LET first == CHOOSE i \in starts : \A j \in starts : i <= j
           IN  <<TRUE, RunLength(p, first)>>

TemplateSymbols == {"!", "@", "#", "$", "%"}

IsLetter(c) == IsLower(c) \/ IsUpper(c)

\* re.fullmatch(r"[A-Za-z]+[0-9]{1,4}[!@#$%]?", pw)
template_match(p) ==
  \E a \in 1..Len(p) : \E d \in 1..4 : \E t \in 0..1 :
    /\ a + d + t = Len(p)
    /\ \A i \in 1..a : IsLetter(p[i])
    /\ \A i \in (a + 1)..(a + d) : IsDigit(p[i])
    /\ t = 1 => p[Len(p)] \in TemplateSymbols

---------------------------------------------------------------------------
(* estimate_entropy_bits *)

has_lower(p) == \E i \in 1..Len(p) : IsLower(p[i])

has_upper(p) == \E i \in 1..Len(p) : IsUpper(p[i])

has_digit(p) == \E i \in 1..Len(p) : IsDigit(p[i])

has_symbol(p) == \E i \in 1..Len(p) : IsSymbol(p[i])

pools(p) ==
    (IF has_lower(p) THEN 26 ELSE 0) + (IF has_upper(p) THEN 26 ELSE 0)
  + (IF has_digit(p) THEN 10 ELSE 0) + (IF has_symbol(p) THEN 33 ELSE 0)

\* floor(10^6 * log2(n)) for the pool sizes that can occur
Log2Micro(n) ==
  CASE n = 10 -> 3321928 [] n = 26 -> 4700439 [] n = 33 -> 5044394
    [] n = 36 -> 5169925 [] n = 43 -> 5426264 [] n = 52 -> 5700439
    [] n = 59 -> 5882643 [] n = 62 -> 5954196 [] n = 69 -> 6108524
    [] n = 85 -> 6409390 [] n = 95 -> 6569855

\* len(pw) * log2(pools), in millionths of a bit
estimate_entropy_bits(p) ==
  IF p = <<>> THEN 0
  ELSE IF pools(p) = 0 THEN 0
  ELSE Len(p) * Log2Micro(pools(p))

\* round(entropy, 2), in hundredths of a bit
Round2(micro) == (micro + 5000) \div 10000

---------------------------------------------------------------------------
(* rate_from_score and the scoring rules of evaluate_password.  A rule     *)
(* yields its score delta, the issues and the suggestions it appends.      *)
(* The en dashes of the program's messages are written as hyphens.         *)

Rule(d, i, s) == [delta |-> d, issues |-> i, suggestions |-> s]

NoRule == Rule(0, <<>>, <<>>)

rate_from_score_strict70(score) ==
  IF score >= 85 THEN "Very Strong"
  ELSE IF score > 70 THEN "Strong"
  ELSE IF score >= 50 THEN "Moderate"
  ELSE IF score >= 30 THEN "Weak"
  ELSE "Very Weak"

rate_from_score(score) ==
  IF score >= 85 THEN "Very Strong"
  ELSE IF score >= 70 THEN "Strong"
  ELSE IF score >= 50 THEN "Moderate"
  ELSE IF score >= 30 THEN "Weak"
  ELSE "Very Weak"

length_rule_16_as_12(length) ==
  IF length >= 12 THEN Rule(30, <<>>, <<>>)
  ELSE IF length >= 10 THEN Rule(20, <<>>, <<>>)
  ELSE IF length >= 8 THEN Rule(10, <<>>, <<>>)
  ELSE Rule(0, <<"Too short (aim for at least 12 characters).">>,
               <<"Use 12-16+ characters (a passphrase works well).">>)

length_rule(length) ==
  IF length >= 16 THEN Rule(40, <<>>, <<>>)
  ELSE IF length >= 12 THEN Rule(30, <<>>, <<>>)
  ELSE IF length >= 10 THEN Rule(20, <<>>, <<>>)
  ELSE IF length >= 8 THEN Rule(10, <<>>, <<>>)
  ELSE Rule(0, <<"Too short (aim for at least 12 characters).">>,
               <<"Use 12-16+ characters (a passphrase works well).">>)

Absent(present, issue, suggestion) ==
  IF present THEN NoRule ELSE Rule(0, <<issue>>, <<suggestion>>)

variety_rule(p) ==
  LET variety == (IF has_lower(p) THEN 1 ELSE 0) + (IF has_upper(p) THEN 1 ELSE 0)
               + (IF has_digit(p) THEN 1 ELSE 0) + (IF has_symbol(p) THEN 1 ELSE 0)
      l == Absent(has_lower(p), "No lowercase letters.", "Add lowercase letters (a-z).")
      u == Absent(has_upper(p), "No uppercase letters.", "Add uppercase letters (A-Z).")
      d == Absent(has_digit(p), "No digits.", "Add digits (0-9).")
      y == Absent(has_symbol(p), "No symbols.", "Add symbols (e.g., !@#$%).")
  IN  Rule(variety * 10,
           l.issues \o u.issues \o d.issues \o y.issues,
           l.suggestions \o u.suggestions \o d.suggestions \o y.suggestions)

ExactIssue == "Appears in common password lists."

exact_common_rule_minus4(normalized, words) ==
  IF normalized \in words
  THEN Rule(-4, <<ExactIssue>>,
            <<"Avoid common passwords; use a unique passphrase.">>)
  ELSE NoRule

\* normalized in common_passwords
exact_common_rule(normalized, words) ==
  IF normalized \in words
  THEN Rule(-40, <<ExactIssue>>,
            <<"Avoid common passwords; use a unique passphrase.">>)
  ELSE NoRule

---------------------------------------------------------------------------
(* The common-substring scan over list(common_passwords)[:5000] *)

TotalOf(c) == Cardinality(c.words) + c.bulk

slice_len_uncapped(c) == TotalOf(c)

\* len(list(common_passwords)[:5000])
slice_len(c) == Min(TotalOf(c), ScanCap)

\* list(common_passwords)[:5000]: the entries the loop visits.  The list is in
\* the iteration order of the set, which no rule of the program fixes, so the
\* slice holds any slice_len(c) entries of the set.
Slices(c) ==
  { [words |-> W, bulk |-> slice_len(c) - Cardinality(W)] :
      W \in { V \in SUBSET c.words : slice_len(c) - Cardinality(V) \in 0..c.bulk } }

\* The for loop over the entries of the slice not yet visited: how many times
\* the body of the if ran.  It stops at the first match (break), so the
\* order of the visits does not change the value; bulk entries never match.
RECURSIVE ScanFrom(_, _)
ScanFrom(rest, normalized) ==
  IF rest = {} THEN 0
  ELSE LET w == CHOOSE x \in rest : TRUE
       IN  IF Len(w) >= MinCommonLen /\ IsSubstring(w, normalized)
           THEN 1
           ELSE ScanFrom(rest \ {w}, normalized)

common_substring_scan(slice, normalized) == ScanFrom(slice.words, normalized)

SubstringIssue == "Contains a common password word/pattern."

SubstringSuggestion ==
  "Remove common words (e.g., 'password', 'admin') and use a unique phrase."

\* the issue, the suggestion and the penalty, once for each run of the body
substring_rule(hits) ==
  Rule(-20 * hits, [i \in 1..hits |-> SubstringIssue],
       [i \in 1..hits |-> SubstringSuggestion])

sequence_rule(lower_pw) ==
  IF has_keyboard_sequence(lower_pw, MinSeqLen) \/ has_simple_sequence(lower_pw, MinSeqLen)
  THEN Rule(-15, <<"Contains an easy sequence (keyboard or ordered characters).">>,
            <<"Avoid sequences like 1234, abcd, qwer.">>)
  ELSE NoRule

RepeatIssue(stars) ==
  CASE stars = 4 -> "Contains repeated characters (e.g., '****')."
    [] stars = 5 -> "Contains repeated characters (e.g., '*****')."
    [] stars = 6 -> "Contains repeated characters (e.g., '******')."

repeat_rule(p) ==
  LET rep == repeated_characters(p)
  IN  IF rep[1]
      THEN Rule(-10, <<RepeatIssue(Min(rep[2], 6))>>,
                <<"Avoid long repeats like aaaa or 1111.">>)
      ELSE NoRule

TemplateIssue == "Looks like a common pattern (word + digits)."

template_rule(p) ==
  IF template_match(p)
  THEN Rule(-10, <<TemplateIssue>>,
            <<"Use a passphrase or mix words in a less predictable way.">>)
  ELSE NoRule

EntropyHigh == 80000000

EntropyLow == 50000000

entropy_rule_plus20(micro) ==
  IF micro >= EntropyHigh THEN Rule(20, <<>>, <<>>)
  ELSE IF micro < EntropyLow
  THEN Rule(-10, <<>>, <<"Increase complexity and length to raise entropy.">>)
  ELSE NoRule

entropy_rule(micro) ==
  IF micro >= EntropyHigh THEN Rule(10, <<>>, <<>>)
  ELSE IF micro < EntropyLow
  THEN Rule(-10, <<>>, <<"Increase complexity and length to raise entropy.">>)
  ELSE NoRule

clamp_upper_only(score) == Min(100, score)

\* max(0, min(100, score))
clamp(score) == Max(0, Min(100, score))

\* suggestions_unique: first occurrences, in order
RECURSIVE Dedupe(_, _)
Dedupe(s, seen) ==
  IF s = <<>> THEN <<>>
  ELSE IF Head(s) \in seen THEN Dedupe(Tail(s), seen)
  ELSE <<Head(s)>> \o Dedupe(Tail(s), seen \cup {Head(s)})

---------------------------------------------------------------------------
(* evaluate_password(pw, common_passwords).  'words' is the set and        *)
(* 'slice' what list(common_passwords)[:5000] holds in this call.  The     *)
(* value is the CheckResult returned, with two observations of the call    *)
(* beside it: raw, the local score before it is clamped, and scanned, the  *)
(* number of entries of the slice.                                         *)

EmptyResult ==
  [score |-> 0, rating |-> "Very Weak", entropy_bits |-> 0,
   issues |-> <<"Password is empty.">>,
   suggestions |-> <<"Enter a password with at least 12-16 characters.">>]

RECURSIVE SumDelta(_)
SumDelta(rs) == IF rs = <<>> THEN 0 ELSE Head(rs).delta + SumDelta(Tail(rs))

RECURSIVE AllIssues(_)
AllIssues(rs) == IF rs = <<>> THEN <<>> ELSE Head(rs).issues \o AllIssues(Tail(rs))

RECURSIVE AllSuggestions(_)
AllSuggestions(rs) ==
  IF rs = <<>> THEN <<>> ELSE Head(rs).suggestions \o AllSuggestions(Tail(rs))

evaluate_nonempty(p, words, slice) ==
  LET normalized == normalize_for_common_checks(p)
      hits == common_substring_scan(slice, normalized)
      entropy == estimate_entropy_bits(p)
      rules == << length_rule(Len(p)),
                  variety_rule(p),
                  exact_common_rule(normalized, words),
                  substring_rule(hits),
                  sequence_rule(Lower(p)),
                  repeat_rule(p),
                  template_rule(p),
                  entropy_rule(entropy) >>
      total == SumDelta(rules)
      score == clamp(total)
  IN  [result |-> [score |-> score,
                   rating |-> rate_from_score(score),
                   entropy_bits |-> Round2(entropy),
                   issues |-> AllIssues(rules),
                   suggestions |-> Dedupe(AllSuggestions(rules), {})],
       raw |-> total,
       scanned |-> TotalOf(slice)]

evaluate_password_no_empty_case(p, words, slice) == evaluate_nonempty(p, words, slice)

evaluate_password(p, words, slice) ==
  IF p = <<>> THEN [result |-> EmptyResult, raw |-> 0, scanned |-> 0]
  ELSE evaluate_nonempty(p, words, slice)

---------------------------------------------------------------------------
(* load_common_passwords(path).  A path is absent, names nothing, or names *)
(* a file: its lines, the number of further (bulk) lines, and the fault    *)
(* that open() or the read raises after faultAt lines, if any.             *)

Comment == "#"

Returned(words, bulk) == [status |-> "returned", words |-> words, bulk |-> bulk]

Raised == [status |-> "raised", words |-> {}, bulk |-> 0]

\* the lines that pass `if p and not p.startswith("#")`, stripped and lower-cased
Entries(lines) ==
  { Lower(Strip(lines[i])) :
      i \in { j \in 1..Len(lines) :
                Strip(lines[j]) # <<>> /\ ~StartsWith(Strip(lines[j]), Comment) } }

load_common_passwords(path) ==
  IF ~path.given THEN Returned(DEFAULT_COMMON_PASSWORDS, 0)
  ELSE IF ~path.exists THEN Returned(DEFAULT_COMMON_PASSWORDS, 0)
  ELSE LET read == IF path.fault = "none" THEN path.lines
                   ELSE SubSeq(path.lines, 1, path.faultAt)
           out == DEFAULT_COMMON_PASSWORDS \cup Entries(read)
       IN  IF path.fault = "OSError" THEN Returned(DEFAULT_COMMON_PASSWORDS, 0)
           ELSE IF path.fault = "UnicodeDecodeError" THEN Raised
           ELSE Returned(out, path.bulk)

---------------------------------------------------------------------------
(* Inputs of the model *)

\* what a password is typed from
Pieces ==
  { <<"H","g","T","f","R","d","E","s">>,
    <<"H","g","T","f","R","d","E","s","J","w","4","%">>,
    <<"X","k","#","9","H","g","T","f","R","d","E","s">>,
    <<"P","@","s","s","w","0","r","d">>,
    <<"1","2","3","4","5","6">>,
    <<"a","a","a","a">>,
    <<" ", Tab, " ", Tab, " ">> }

\* lines a supplemental list is written from
LineChoices ==
  { <<" ","A","a","A","a",Tab>>,
    <<" ","#","x">>,
    <<" ", Tab>> }

RECURSIVE SeqsUpTo(_, _)
SeqsUpTo(S, n) ==
  IF n = 0 THEN {<<>>}
  ELSE LET shorter == SeqsUpTo(S, n - 1)
       IN  shorter \cup {Append(q, x) : q \in shorter, x \in S}

\* numbers of bulk lines: none, or so many that the set, with the built-in
\* entries, holds more than ScanCap entries
BulkChoices == {0, ScanCap - BulkSlack}

Faults == {"none", "OSError", "UnicodeDecodeError"}

NoPath ==
  [given |-> FALSE, exists |-> FALSE, lines |-> <<>>, bulk |-> 0,
   fault |-> "none", faultAt |-> 0]

MissingPath == [NoPath EXCEPT !.given = TRUE]

Files ==
  { [given |-> TRUE, exists |-> TRUE, lines |-> l, bulk |-> b,
     fault |-> f, faultAt |-> k] :
      l \in SeqsUpTo(LineChoices, MaxFileLines), b \in BulkChoices,
      f \in Faults, k \in 0..MaxFileLines }

\* sets a caller of evaluate_password builds itself
CallerSets ==
  { {},
    { <<"h","g","t","f","r","d","e","s">>, <<"p","a","s","s","w","o","r","d">> } }

\* how many entries of the slice are of length >= 6 and occur in the
\* normalized password
matches_in(p, slice) ==
  Cardinality({w \in slice.words :
                 Len(w) >= MinCommonLen
                 /\ IsSubstring(w, normalize_for_common_checks(p))})

NoResult ==
  [score |-> -1, rating |-> "none", entropy_bits |-> 0,
   issues |-> <<>>, suggestions |-> <<>>]

NoCall == [result |-> NoResult, raw |-> 0, scanned |-> 0]

---------------------------------------------------------------------------
(* The program: main() loads the list, reads the password, evaluates it;   *)
(* a second call of evaluate_password on the same arguments follows.       *)

Init ==
  /\ pc = "start"
  /\ pw = <<>>
  /\ common = [words |-> {}, bulk |-> 0]
  /\ loadStatus = "none"
  /\ seenMatches = 0
  /\ call1 = NoCall
  /\ call2 = NoCall

Loaded(r) ==
  /\ loadStatus' = r.status
  /\ common' = [words |-> r.words, bulk |-> r.bulk]
  /\ pc' = IF r.status = "raised" THEN "aborted" ELSE "prompt"
  /\ UNCHANGED <<pw, seenMatches, call1, call2>>

LoadNoPath ==
  /\ pc = "start"
  /\ Loaded(load_common_passwords(NoPath))

LoadMissingPath ==
  /\ pc = "start"
  /\ Loaded(load_common_passwords(MissingPath))

LoadFile ==
  /\ pc = "start"
  /\ \E f \in Files :
       /\ f.faultAt <= Len(f.lines)
       /\ f.fault = "none" => f.faultAt = 0
       /\ Loaded(load_common_passwords(f))

CallerSet ==
  /\ pc = "start"
  /\ \E S \in CallerSets :
       /\ common' = [words |-> S, bulk |-> 0]
       /\ pc' = "prompt"
       /\ UNCHANGED <<pw, loadStatus, seenMatches, call1, call2>>

TypePiece ==
  /\ pc = "prompt"
  /\ \E f \in Pieces :
       /\ Len(pw) + Len(f) <= MaxLen
       /\ pw' = pw \o f
  /\ UNCHANGED <<pc, common, loadStatus, seenMatches, call1, call2>>

Evaluate ==
  /\ pc = "prompt"
  /\ \E slice \in Slices(common) :
       /\ call1' = evaluate_password(pw, common.words, slice)
       /\ seenMatches' = matches_in(pw, slice)
  /\ pc' = "evaluated"
  /\ UNCHANGED <<pw, common, loadStatus, call2>>

EvaluateAgain ==
  /\ pc = "evaluated"
  /\ \E slice \in Slices(common) :
       /\ call2' = evaluate_password(pw, common.words, slice)
       /\ seenMatches' = matches_in(pw, slice)
  /\ pc' = "done"
  /\ UNCHANGED <<pw, common, loadStatus, call1>>

Next ==
  \/ LoadNoPath
  \/ LoadMissingPath
  \/ LoadFile
  \/ CallerSet
  \/ TypePiece
  \/ Evaluate
  \/ EvaluateAgain

Spec == Init /\ [][Next]_vars

---------------------------------------------------------------------------
(* Properties *)

Done1 == pc \in {"evaluated", "done"}

Done2 == pc = "done"

\* the calls of evaluate_password that have returned
Completed == (IF Done1 THEN {call1} ELSE {}) \cup (IF Done2 THEN {call2} ELSE {})

\* the call that seenMatches belongs to
LastCall == IF Done2 THEN call2 ELSE call1

Normalized == normalize_for_common_checks(pw)

Rank(rating) ==
  CASE rating = "Very Weak" -> 0
    [] rating = "Weak" -> 1
    [] rating = "Moderate" -> 2
    [] rating = "Strong" -> 3
    [] rating = "Very Strong" -> 4

\* C1: every returned score s has 0 <= s <= 100 (and the entropy estimate is
\* not negative), whatever the raw total of bonuses and penalties was.
C1_ScoreInRange ==
  \A c \in Completed :
    /\ c.result.score >= 0
    /\ c.result.score <= 100
    /\ c.result.entropy_bits >= 0

\* a call whose raw total was negative has returned
C1_Witness == Done1 /\ call1.raw < 0 /\ call1.result.score = 0

\* the precondition of C2: 20 characters, all four classes, no common-set
\* word in the normalized password (as a whole or as a part), no sequence,
\* no run of 4 equal characters, entropy of at least 80 bits
C2_Pre ==
  /\ Len(pw) = 20
  /\ has_lower(pw) /\ has_upper(pw) /\ has_digit(pw) /\ has_symbol(pw)
  /\ \A w \in common.words : ~IsSubstring(w, Normalized)
  /\ ~has_keyboard_sequence(Lower(pw), MinSeqLen)
  /\ ~has_simple_sequence(Lower(pw), MinSeqLen)
  /\ ~repeated_characters(pw)[1]
  /\ estimate_entropy_bits(pw) >= EntropyHigh

\* C2 as stated: every password meeting the precondition scores at least 85
\* and is rated "Very Strong".
C2_Original ==
  \A c \in Completed :
    C2_Pre => c.result.score >= 85 /\ c.result.rating = "Very Strong"

\* C2 (amended): every password meeting the precondition that, in addition,
\* does not match the word+digits template scores at least 85 and is rated
\* "Very Strong".
C2_Amended ==
  \A c \in Completed :
    C2_Pre /\ ~template_match(pw)
      => c.result.score >= 85 /\ c.result.rating = "Very Strong"

C2_Witness ==
  Done1 /\ C2_Pre /\ ~template_match(pw) /\ call1.result.rating = "Very Strong"

\* C3: two calls with the same password and the same set return identical
\* CheckResults.
C3_Deterministic == Done2 => call1.result = call2.result

\* C4: with the built-in seed set, a password that is a member of the seed
\* set is flagged "Appears in common password lists.".
C4_SeedMemberFlagged ==
  \A c \in Completed :
    (/\ loadStatus = "returned"
     /\ common = [words |-> DEFAULT_COMMON_PASSWORDS, bulk |-> 0]
     /\ pw \in DEFAULT_COMMON_PASSWORDS)
      => \E i \in 1..Len(c.result.issues) : c.result.issues[i] = ExactIssue

\* C5: load_common_passwords never raises.
C5_LoadNeverRaises == loadStatus # "raised"

\* C6: the rating is the label of the band the final score lies in
\* (85/70/50/30), and of two results the one with the higher score never has
\* the lower label.
C6_RatingFromScore ==
  /\ \A c \in Completed :
       LET s == c.result.score
           r == c.result.rating
       IN  /\ (s >= 85) <=> (r = "Very Strong")
           /\ (s >= 70 /\ s < 85) <=> (r = "Strong")
           /\ (s >= 50 /\ s < 70) <=> (r = "Moderate")
           /\ (s >= 30 /\ s < 50) <=> (r = "Weak")
           /\ (s < 30) <=> (r = "Very Weak")
  /\ \A c \in Completed : \A d \in Completed :
       c.result.score <= d.result.score
         => Rank(c.result.rating) <= Rank(d.result.rating)

\* two results with different scores and different labels
C6_Witness ==
  /\ Done2
  /\ call1.result.score < call2.result.score
  /\ Rank(call1.result.rating) < Rank(call2.result.rating)

\* C7: the empty password gets score 0, "Very Weak", entropy 0, the one issue
\* "Password is empty." and exactly one suggestion.
C7_EmptyPassword ==
  \A c \in Completed :
    pw = <<>> =>
      /\ c.result.score = 0
      /\ c.result.rating = "Very Weak"
      /\ c.result.entropy_bits = 0
      /\ c.result.issues = <<"Password is empty.">>
      /\ Len(c.result.suggestions) = 1

C7_Witness == Done1 /\ pw = <<>>

Matches(w) == Len(w) >= MinCommonLen /\ IsSubstring(w, Normalized)

Count(s, x) == Cardinality({i \in 1..Len(s) : s[i] = x})

\* C8: the slice a call scans holds at most 5000 entries of the set, and the
\* substring issue is recorded once when entries of the slice match, however
\* many do, and not at all when none does.
C8_ScanBounded ==
  /\ \A c \in Completed :
       /\ c.scanned <= ScanCap
       /\ c.scanned <= TotalOf(common)
       /\ Count(c.result.issues, SubstringIssue) <= 1
  /\ (Done1 /\ pw # <<>>) =>
       /\ seenMatches <= Cardinality({w \in common.words : Matches(w)})
       /\ Count(LastCall.result.issues, SubstringIssue)
            = IF seenMatches > 0 THEN 1 ELSE 0

\* a call on a set of more than 5000 entries whose slice held 5000 of them,
\* none matching, and left a matching entry out
C8_Witness ==
  /\ Done1
  /\ TotalOf(common) > ScanCap
  /\ LastCall.scanned = ScanCap
  /\ Count(LastCall.result.issues, SubstringIssue) = 0
  /\ \E w \in common.words : Matches(w)

\* a call whose slice held several matching entries and recorded the issue once
C8_WitnessOnce ==
  /\ Done1
  /\ seenMatches > 1
  /\ Count(LastCall.result.issues, SubstringIssue) = 1

\* C9: a password whose normalized form is in the set scores at most 50 and
\* is rated neither "Strong" nor "Very Strong".
C9_CommonCapped ==
  \A c \in Completed :
    Normalized \in common.words =>
      /\ c.result.score <= 50
      /\ c.result.rating \notin {"Strong", "Very Strong"}

C9_Witness ==
  Done1 /\ pw # <<>> /\ Normalized \in common.words /\ call1.result.score = 50

\* C10: no score exceeds 90; a "Very Strong" result has score 90 and neither
\* issues nor suggestions; a result with an issue scores at most 80.
C10_VeryStrongClean ==
  \A c \in Completed :
    /\ c.result.score <= 90
    /\ c.result.rating = "Very Strong" =>
         /\ c.result.score = 90
         /\ c.result.issues = <<>>
         /\ c.result.suggestions = <<>>
    /\ c.result.issues # <<>> => c.result.score <= 80

C10_Witness == Done1 /\ call1.result.rating = "Very Strong"

===========================================================================
